---- MODULE Spec2Model ----
(***************************************************************************)
(* Positional binary record codec of the AEIF / ameise dataset toolkit     *)
(* (src/ameisedataset/data/agent.py) and the image save interface          *)
(* (src/aeifdataset/utils/image_functions.py).                             *)
(*                                                                         *)
(* One run of the codec part constructs a record, encodes it slot by slot  *)
(* (to_bytes), hands the encoding or a prefix of it to from_bytes and      *)
(* decodes it slot by slot.  One run of the image part is one call of      *)
(* save_image or of save_all_images_in_frame.                              *)
(***************************************************************************)
EXTENDS Integers, Sequences, FiniteSets, TLC

\* ------------------------------------------------------------------ bounds

\* Leaf values are v = base + stride * (position - 1), base in 0..MaxBase.
MaxBase == 1
\* stride 0: all slots hold the same value; stride >= 1: pairwise different.
MaxStride == 1
\* The leaf payload writes v in little-endian digits of this base.
DigitBase == 4
\* Cameras of a frame handed to save_all_images_in_frame.
MaxCams == 2
\* Timestamps embedded in an image.
MaxTs == 2

\* ---------------------------------------------------------------- helpers

RECURSIVE Flat(_)
Flat(ss) == IF ss = <<>> THEN <<>> ELSE Head(ss) \o Flat(Tail(ss))

RECURSIVE SumLen(_)
SumLen(ss) == IF ss = <<>> THEN 0 ELSE Len(Head(ss)) + SumLen(Tail(ss))

\* ------------------------------------------------------------- leaf codec
\* The leaf classes and ameisedataset.miscellaneous are not part of the
\* sources at hand; they are modelled from their contract:
\* encode(value) -> bytes, decode(bytes) -> (value, remaining_bytes), a
\* self-delimited span, an absent value as a sentinel.

Leaf(kind, v) == [kind |-> kind, v |-> v]

\* Python's None in an Optional slot.
NONE == [kind |-> "None", v |-> 0]

Tag(kind) ==
  CASE kind = "Camera" -> 1
    [] kind = "Lidar" -> 2
    [] kind = "IMU" -> 3
    [] kind = "GNSS" -> 4
    [] kind = "Odometry" -> 5

RECURSIVE Digits(_)
Digits(v) == IF v = 0 THEN <<>> ELSE <<v % DigitBase>> \o Digits(v \div DigitBase)

RECURSIVE FromDigits(_)
FromDigits(s) == IF s = <<>> THEN 0 ELSE Head(s) + DigitBase * FromDigits(Tail(s))

\* A digit string some value encodes to: digits in range, no leading zero.
WellFormedDigits(s) ==
  /\ \A i \in DOMAIN s : s[i] \in 0..(DigitBase - 1)
  /\ (s # <<>> => s[Len(s)] # 0)

\* <leaf>.to_bytes(): a type tag and the content.
LeafToBytes(x) == <<Tag(x.kind)>> \o Digits(x.v)

\* serialize(obj): a length prefix and the payload; None is the zero length.
Serialize(x) ==
  IF x = NONE THEN <<0>>
  ELSE LET p == LeafToBytes(x) IN <<Len(p)>> \o p

\* obj_to_bytes(obj): the same framing.
ObjToBytes(x) == Serialize(x)

Failure(e) == [err |-> e, val |-> NONE, rest |-> <<>>]

\* <kind>.from_bytes(payload): the outcomes of decoding a payload as `kind`.
\* A payload of another leaf type is either rejected or its content is read
\* as a value of `kind`: the contract does not say which.
LeafFromBytes(p, kind) ==
  IF ~WellFormedDigits(Tail(p))
  THEN {[err |-> "LeafDecodeError", val |-> NONE]}
  ELSE IF p[1] = Tag(kind)
  THEN {[err |-> "ok", val |-> Leaf(kind, FromDigits(Tail(p)))]}
  ELSE {[err |-> "LeafDecodeError", val |-> NONE],
        [err |-> "ok", val |-> Leaf(kind, FromDigits(Tail(p)))]}

\* deserialize(data, cls): the outcomes (value, remaining bytes) or an error.
Deserialize(data, kind) ==
  IF Len(data) = 0 THEN {Failure("TruncatedStreamError")}
  ELSE LET n == data[1] IN
    IF n = 0 THEN {[err |-> "ok", val |-> NONE, rest |-> Tail(data)]}
    ELSE IF Len(data) < 1 + n THEN {Failure("TruncatedStreamError")}
    ELSE {[err |-> o.err, val |-> o.val,
           rest |-> IF o.err = "ok" THEN SubSeq(data, 2 + n, Len(data)) ELSE <<>>] :
             o \in LeafFromBytes(SubSeq(data, 2, 1 + n), kind)}

\* obj_from_bytes(data): the value alone.
ObjFromBytes(data) == Deserialize(data, "Odometry")

\* ---------------------------------------------------------------- schemas

CompositeClasses ==
  {"VisionSensorsVeh", "LaserSensorsVeh", "VisionSensorsTow", "LaserSensorsTow"}

AgentClasses == {"Tower", "Vehicle"}

Classes == CompositeClasses \cup AgentClasses

Slot(name, kind, optional) == [name |-> name, kind |-> kind, optional |-> optional]

\* __init__ of the four sensor groups: the declared slots, in order.
CompositeInit(c) ==
  CASE c = "VisionSensorsVeh" ->
         << Slot("BACK_LEFT", "Camera", FALSE), Slot("FRONT_LEFT", "Camera", FALSE),
            Slot("STEREO_LEFT", "Camera", FALSE), Slot("STEREO_RIGHT", "Camera", FALSE),
            Slot("FRONT_RIGHT", "Camera", FALSE), Slot("BACK_RIGHT", "Camera", FALSE),
            Slot("REAR", "Camera", TRUE) >>
    [] c = "LaserSensorsVeh" ->
         << Slot("LEFT", "Lidar", FALSE), Slot("TOP", "Lidar", FALSE),
            Slot("RIGHT", "Lidar", FALSE), Slot("REAR", "Lidar", TRUE) >>
    [] c = "VisionSensorsTow" ->
         << Slot("VIEW_1", "Camera", FALSE), Slot("VIEW_2", "Camera", FALSE) >>
    [] c = "LaserSensorsTow" ->
         << Slot("VIEW_1", "Lidar", FALSE), Slot("VIEW_2", "Lidar", FALSE),
            Slot("TOP", "Lidar", FALSE) >>

\* __init__ of the two agents: each attribute and its type.
AgentInit(c) ==
  CASE c = "Tower" ->
         << [field |-> "cameras", type |-> "VisionSensorsTow"],
            [field |-> "lidars", type |-> "LaserSensorsTow"],
            [field |-> "GNSS", type |-> "GNSS"] >>
    [] c = "Vehicle" ->
         << [field |-> "cameras", type |-> "VisionSensorsVeh"],
            [field |-> "lidars", type |-> "LaserSensorsVeh"],
            [field |-> "IMU", type |-> "IMU"],
            [field |-> "GNSS", type |-> "GNSS"],
            [field |-> "odometry", type |-> "Odometry"] >>

\* The list a group's to_bytes joins, with two slots exchanged.
ToBytesListSwapped(c) ==
  CASE c = "VisionSensorsVeh" ->
         <<"FRONT_LEFT", "BACK_LEFT", "STEREO_LEFT", "STEREO_RIGHT", "FRONT_RIGHT",
           "BACK_RIGHT", "REAR">>
    [] c = "LaserSensorsVeh" -> <<"TOP", "LEFT", "RIGHT", "REAR">>
    [] c = "VisionSensorsTow" -> <<"VIEW_2", "VIEW_1">>
    [] c = "LaserSensorsTow" -> <<"VIEW_2", "VIEW_1", "TOP">>

\* The list a group's to_bytes joins.
ToBytesList(c) ==
  CASE c = "VisionSensorsVeh" ->
         <<"BACK_LEFT", "FRONT_LEFT", "STEREO_LEFT", "STEREO_RIGHT", "FRONT_RIGHT",
           "BACK_RIGHT", "REAR">>
    [] c = "LaserSensorsVeh" -> <<"LEFT", "TOP", "RIGHT", "REAR">>
    [] c = "VisionSensorsTow" -> <<"VIEW_1", "VIEW_2">>
    [] c = "LaserSensorsTow" -> <<"VIEW_1", "VIEW_2", "TOP">>

\* The attribute list a group's from_bytes walks, with two slots exchanged.
FromBytesAttrsSwapped(c) ==
  CASE c = "VisionSensorsVeh" ->
         <<"BACK_LEFT", "FRONT_LEFT", "STEREO_RIGHT", "STEREO_LEFT", "FRONT_RIGHT",
           "BACK_RIGHT", "REAR">>
    [] c = "LaserSensorsVeh" -> <<"LEFT", "RIGHT", "TOP", "REAR">>
    [] c = "VisionSensorsTow" -> <<"VIEW_2", "VIEW_1">>
    [] c = "LaserSensorsTow" -> <<"VIEW_1", "TOP", "VIEW_2">>

\* The attribute list a group's from_bytes walks.
FromBytesAttrs(c) ==
  CASE c = "VisionSensorsVeh" ->
         <<"BACK_LEFT", "FRONT_LEFT", "STEREO_LEFT", "STEREO_RIGHT", "FRONT_RIGHT",
           "BACK_RIGHT", "REAR">>
    [] c = "LaserSensorsVeh" -> <<"LEFT", "TOP", "RIGHT", "REAR">>
    [] c = "VisionSensorsTow" -> <<"VIEW_1", "VIEW_2">>
    [] c = "LaserSensorsTow" -> <<"VIEW_1", "VIEW_2", "TOP">>

\* The class a group's from_bytes passes to deserialize.
FromBytesKind(c) ==
  IF c \in {"VisionSensorsVeh", "VisionSensorsTow"} THEN "Camera" ELSE "Lidar"

\* Agent.to_bytes: the terms of the sum, in order, and how each is encoded.
AgentToBytes(c) ==
  CASE c = "Tower" ->
         << [field |-> "cameras", via |-> "to_bytes"],
            [field |-> "lidars", via |-> "to_bytes"],
            [field |-> "GNSS", via |-> "serialize"] >>
    [] c = "Vehicle" ->
         << [field |-> "cameras", via |-> "to_bytes"],
            [field |-> "lidars", via |-> "to_bytes"],
            [field |-> "IMU", via |-> "serialize"],
            [field |-> "GNSS", via |-> "serialize"],
            [field |-> "odometry", via |-> "obj_to_bytes"] >>

\* Agent.from_bytes: the statements, in order. rebind: whether the statement
\* assigns the remaining bytes back to `data`.
AgentFromBytes(c) ==
  CASE c = "Tower" ->
         << [field |-> "cameras", via |-> "from_bytes", arg |-> "VisionSensorsTow", rebind |-> FALSE],
            [field |-> "lidars", via |-> "from_bytes", arg |-> "LaserSensorsTow", rebind |-> FALSE],
            [field |-> "GNSS", via |-> "deserialize", arg |-> "GNSS", rebind |-> FALSE] >>
    [] c = "Vehicle" ->
         << [field |-> "cameras", via |-> "from_bytes", arg |-> "VisionSensorsVeh", rebind |-> FALSE],
            [field |-> "lidars", via |-> "from_bytes", arg |-> "LaserSensorsVeh", rebind |-> FALSE],
            [field |-> "IMU", via |-> "deserialize", arg |-> "IMU", rebind |-> TRUE],
            [field |-> "GNSS", via |-> "deserialize", arg |-> "GNSS", rebind |-> TRUE],
            [field |-> "odometry", via |-> "obj_from_bytes", arg |-> "Odometry", rebind |-> FALSE] >>

\* A group's from_bytes keeps element [0] of deserialize's pair and drops the
\* remaining bytes: `data` is not assigned in the loop.
SlotRebind == FALSE

\* ------------------------------------------------------------------ plans
\* A leaf of a record is named by its path <<group, attribute>>; the group of
\* a record's own attributes is "self".

GroupSlots(grp, c) ==
  [i \in 1..Len(CompositeInit(c)) |->
     [path |-> <<grp, CompositeInit(c)[i].name>>, kind |-> CompositeInit(c)[i].kind,
      optional |-> CompositeInit(c)[i].optional]]

\* The leaves of a record in the order __init__ declares them.
DeclOrder(c) ==
  IF c \in CompositeClasses THEN GroupSlots("self", c)
  ELSE Flat([i \in 1..Len(AgentInit(c)) |->
         LET a == AgentInit(c)[i] IN
         IF a.type \in CompositeClasses THEN GroupSlots(a.field, a.type)
         ELSE << [path |-> <<"self", a.field>>, kind |-> a.type, optional |-> FALSE] >>])

Paths(c) == {DeclOrder(c)[i].path : i \in 1..Len(DeclOrder(c))}

PathsOf == [c \in Classes |-> Paths(c)]

OptionalPaths(c) ==
  {DeclOrder(c)[i].path : i \in {j \in 1..Len(DeclOrder(c)) : DeclOrder(c)[j].optional}}

\* The type of the attribute `field` of agent c, as __init__ sets it.
AttrType(c, field) ==
  (CHOOSE a \in {AgentInit(c)[i] : i \in 1..Len(AgentInit(c))} : a.field = field).type

GroupEnc(grp, c) ==
  [i \in 1..Len(ToBytesList(c)) |-> [path |-> <<grp, ToBytesList(c)[i]>>, via |-> "serialize"]]

\* to_bytes as the sequence of leaf encodings it joins.
EncPlan(c) ==
  IF c \in CompositeClasses THEN GroupEnc("self", c)
  ELSE Flat([i \in 1..Len(AgentToBytes(c)) |->
         LET t == AgentToBytes(c)[i] IN
         IF t.via = "to_bytes" THEN GroupEnc(t.field, AttrType(c, t.field))
         ELSE << [path |-> <<"self", t.field>>, via |-> t.via] >>])

GroupDec(grp, c) ==
  [i \in 1..Len(FromBytesAttrs(c)) |->
     [path |-> <<grp, FromBytesAttrs(c)[i]>>, via |-> "deserialize",
      kind |-> FromBytesKind(c), rebind |-> SlotRebind]]

\* from_bytes as the sequence of leaf decodes it makes.
DecPlan(c) ==
  IF c \in CompositeClasses THEN GroupDec("self", c)
  ELSE Flat([i \in 1..Len(AgentFromBytes(c)) |->
         LET t == AgentFromBytes(c)[i] IN
         IF t.via = "from_bytes" THEN GroupDec(t.field, t.arg)
         ELSE << [path |-> <<"self", t.field>>, via |-> t.via, kind |-> t.arg,
                  rebind |-> t.rebind] >>])

\* The three orders of each class, computed once.
DeclOrderOf == [c \in Classes |-> DeclOrder(c)]

EncPlanOf == [c \in Classes |-> EncPlan(c)]

DecPlanOf == [c \in Classes |-> DecPlan(c)]

\* cls(): every slot default-constructed, an Optional slot None.
DefaultInstance(c) ==
  [p \in PathsOf[c] |->
     LET d == CHOOSE x \in {DeclOrderOf[c][i] : i \in 1..Len(DeclOrderOf[c])} : x.path = p IN
     IF d.optional THEN NONE ELSE Leaf(d.kind, 0)]

\* A well-formed record: slot i holds base + stride * (i - 1); the optional
\* slots in `absent` hold None.
MakeRecord(c, base, stride, absent) ==
  [p \in PathsOf[c] |->
     LET i == CHOOSE j \in 1..Len(DeclOrderOf[c]) : DeclOrderOf[c][j].path = p IN
     IF p \in absent THEN NONE ELSE Leaf(DeclOrderOf[c][i].kind, base + stride * (i - 1))]

Encode(via, x) == IF via = "obj_to_bytes" THEN ObjToBytes(x) ELSE Serialize(x)

Decode(step, bytes) ==
  IF step.via = "obj_from_bytes" THEN ObjFromBytes(bytes) ELSE Deserialize(bytes, step.kind)

\* ------------------------------------------------------------------ state

VARIABLES
  pc,        \* "start", "encoding", "encoded", "decoding", "done", "failed", "off"
  cls,       \* the class of the record
  rec,       \* the record handed to to_bytes
  out,       \* to_bytes' output so far
  epos,      \* the next entry of EncPlan
  encLog,    \* per encoded leaf: its path, codec, class, offset and length in out
  input,     \* the buffer handed to from_bytes
  data,      \* from_bytes' variable `data`
  dpos,      \* the next entry of DecPlan
  instance,  \* the instance from_bytes is filling
  decLog,    \* per decoded leaf: its path, codec, class, offset in input, bytes consumed
  raised,    \* the error a leaf decode raised, "none" before
  outcome,   \* how the from_bytes call ended: "none", "ok" or the error
  returned,  \* whether from_bytes returned `instance` to its caller
  ipc,       \* image part: "idle", "saving", "returned", "raised", "off"
  call,      \* the arguments of the image call
  todo,      \* cameras save_all_images_in_frame has yet to save
  dirs,      \* directories made
  saved,     \* files written, in order
  ierr       \* the error the image call raised, "none" before

codecVars ==
  <<pc, cls, rec, out, epos, encLog, input, data, dpos, instance, decLog, raised,
    outcome, returned>>

imageVars == <<ipc, call, todo, dirs, saved, ierr>>

vars == <<codecVars, imageVars>>

NoCall == [fn |-> "none"]

Init ==
  /\ pc = "start"
  /\ cls = "none"
  /\ rec = <<>>
  /\ out = <<>>
  /\ epos = 1
  /\ encLog = <<>>
  /\ input = <<>>
  /\ data = <<>>
  /\ dpos = 1
  /\ instance = <<>>
  /\ decLog = <<>>
  /\ raised = "none"
  /\ outcome = "none"
  /\ returned = FALSE
  /\ ipc = "idle"
  /\ call = NoCall
  /\ todo = <<>>
  /\ dirs = {}
  /\ saved = <<>>
  /\ ierr = "none"

\* ----------------------------------------------------------- codec actions

\* A caller builds a record of one of the six classes.
Construct ==
  /\ pc = "start"
  /\ ipc = "idle"
  /\ \E c \in Classes, base \in 0..MaxBase, stride \in 0..MaxStride :
       \E absent \in SUBSET OptionalPaths(c) :
         /\ cls' = c
         /\ rec' = MakeRecord(c, base, stride, absent)
  /\ pc' = "encoding"
  /\ ipc' = "off"
  /\ UNCHANGED <<out, epos, encLog, input, data, dpos, instance, decLog, raised,
                 outcome, returned, call, todo, dirs, saved, ierr>>

\* to_bytes: the next leaf is encoded and appended to the output.
EncodeStep ==
  /\ pc = "encoding"
  /\ LET step == EncPlanOf[cls][epos]
         bytes == Encode(step.via, rec[step.path]) IN
       /\ out' = out \o bytes
       /\ encLog' = Append(encLog, [path |-> step.path, via |-> step.via,
                                    kind |-> rec[step.path].kind,
                                    start |-> Len(out), used |-> Len(bytes)])
  /\ epos' = epos + 1
  /\ pc' = IF epos = Len(EncPlanOf[cls]) THEN "encoded" ELSE "encoding"
  /\ UNCHANGED <<cls, rec, input, data, dpos, instance, decLog, raised, outcome,
                 returned, imageVars>>

\* cls.from_bytes(buffer) is called with the encoding or a prefix of it.
CallFromBytes ==
  /\ pc = "encoded"
  /\ \E k \in 0..Len(out) : input' = SubSeq(out, 1, k)
  /\ data' = input'
  /\ instance' = DefaultInstance(cls)
  /\ dpos' = 1
  /\ pc' = "decoding"
  /\ UNCHANGED <<cls, rec, out, epos, encLog, decLog, raised, outcome, returned,
                 imageVars>>

\* A leaf decode raised err and from_bytes went on to the next slot.
AfterLeafErrorSkip(err) ==
  /\ dpos' = dpos + 1
  /\ pc' = IF dpos = Len(DecPlanOf[cls]) THEN "done" ELSE "decoding"
  /\ outcome' = IF dpos = Len(DecPlanOf[cls]) THEN "ok" ELSE outcome
  /\ returned' = (dpos = Len(DecPlanOf[cls]))
  /\ UNCHANGED <<instance, data, decLog>>

\* A leaf decode raised err: no from_bytes catches it, so the exception leaves
\* every enclosing from_bytes and reaches the caller; nothing is returned.
AfterLeafError(err) ==
  /\ pc' = "failed"
  /\ outcome' = err
  /\ returned' = FALSE
  /\ UNCHANGED <<instance, data, decLog, dpos>>

\* from_bytes: the next leaf is decoded from `data` and stored in its slot.
DecodeStep ==
  /\ pc = "decoding"
  /\ LET step == DecPlanOf[cls][dpos] IN
     \E o \in Decode(step, data) :
       IF o.err # "ok"
       THEN /\ raised' = o.err
            /\ AfterLeafError(o.err)
       ELSE /\ instance' = [instance EXCEPT ![step.path] = o.val]
            /\ data' = IF step.rebind THEN o.rest ELSE data
            /\ decLog' = Append(decLog, [path |-> step.path, via |-> step.via,
                                         kind |-> step.kind,
                                         start |-> Len(input) - Len(data),
                                         used |-> Len(data) - Len(o.rest)])
            /\ dpos' = dpos + 1
            /\ pc' = IF dpos = Len(DecPlanOf[cls]) THEN "done" ELSE "decoding"
            /\ outcome' = IF dpos = Len(DecPlanOf[cls]) THEN "ok" ELSE outcome
            /\ returned' = (dpos = Len(DecPlanOf[cls]))
            /\ UNCHANGED raised
  /\ UNCHANGED <<cls, rec, out, epos, encLog, input, imageVars>>

\* ------------------------------------------------------------- image part
\* Strings whose case matters are sequences of characters.

UpperChar(ch) ==
  CASE ch = "p" -> "P"
    [] ch = "n" -> "N"
    [] ch = "g" -> "G"
    [] ch = "j" -> "J"
    [] ch = "e" -> "E"
    [] ch = "b" -> "B"
    [] ch = "m" -> "M"
    [] OTHER -> ch

\* str.upper()
Upper(str) == [i \in DOMAIN str |-> UpperChar(str[i])]

\* str.lower() of a camera name.
Lower(name) ==
  CASE name = "VIEW_1" -> "view_1"
    [] name = "STEREO_LEFT" -> "stereo_left"
    [] OTHER -> name

JPEG == <<"J", "P", "E", "G">>

PNG == <<"P", "N", "G">>

\* The format strings a caller passes.
Formats ==
  { PNG, JPEG, <<"p", "n", "g">>, <<"j", "p", "e", "g">>, <<"J", "p", "e", "g">>,
    <<"P", "n", "G">>, <<"J", "P", "G">>, <<"B", "M", "P">>, <<"b", "m", "p">>, <<>> }

\* An image: the toolkit's Image wrapper around a picture, or the picture.
Img(wrapped, ts) == [wrapped |-> wrapped, ts |-> ts]

\* isinstance(image, Image): image = image.image
Unwrap(image) == IF image.wrapped THEN Img(FALSE, image.ts) ELSE image

\* os.path.join(output_path, name)
Join(path, name) == Append(path, name)

\* Whether obj.get_timestamp exists: the toolkit's Image wrapper defines it,
\* the picture class of the imaging library (PilImage.Image) does not.
HasGetTimestamp(obj) == obj.wrapped

\* save_image: the error it raises and the files it writes. The file name is
\* formatted from image.get_timestamp() after `image` has been rebound to the
\* underlying picture, before the format is looked at.
SaveImage(image, output_path, suffix, format) ==
  LET pil == Unwrap(image)
      ext == IF Upper(format) = JPEG THEN "jpg" ELSE "png"
      output_file == [dir |-> output_path, ts |-> pil.ts, suffix |-> suffix, ext |-> ext]
  IN IF ~HasGetTimestamp(pil)
     THEN [err |-> "AttributeError", writes |-> <<>>]
     ELSE IF Upper(format) = JPEG
     THEN [err |-> "none", writes |-> << [file |-> output_file, as |-> JPEG] >>]
     ELSE IF Upper(format) = PNG
     THEN [err |-> "none", writes |-> << [file |-> output_file, as |-> PNG] >>]
     ELSE [err |-> "ValueError", writes |-> <<>>]

CameraNames == {"VIEW_1", "STEREO_LEFT"}

\* A camera of a frame: its name, its processed image and its raw image.
Cam(name) == [name |-> name, image |-> Img(TRUE, 1), raw |-> Img(TRUE, MaxTs)]

RECURSIVE SeqsUpTo(_, _)
SeqsUpTo(S, n) ==
  IF n = 0 THEN {<<>>}
  ELSE SeqsUpTo(S, n - 1) \cup {Append(q, x) : q \in SeqsUpTo(S, n - 1), x \in S}

\* The cameras of a frame in the order the two nested loops visit them.
FrameCameras == {[i \in DOMAIN q |-> Cam(q[i])] : q \in SeqsUpTo(CameraNames, MaxCams)}

OutputPath == <<"out">>

\* A caller calls save_image.
CallSaveImage ==
  /\ ipc = "idle"
  /\ pc = "start"
  /\ \E wrapped \in BOOLEAN, ts \in 1..MaxTs, suffix \in {<<>>, <<"_x">>}, format \in Formats :
       LET r == SaveImage(Img(wrapped, ts), OutputPath, suffix, format) IN
         /\ call' = [fn |-> "save_image", format |-> format, cameras |-> 1,
                     create_subdir |-> FALSE, use_raw |-> FALSE]
         /\ saved' = saved \o r.writes
         /\ ierr' = r.err
         /\ ipc' = IF r.err = "none" THEN "returned" ELSE "raised"
  /\ pc' = "off"
  /\ UNCHANGED <<cls, rec, out, epos, encLog, input, data, dpos, instance, decLog,
                 raised, outcome, returned, todo, dirs>>

\* A caller calls save_all_images_in_frame: the output directory is made.
CallSaveAll ==
  /\ ipc = "idle"
  /\ pc = "start"
  /\ \E cams \in FrameCameras, create_subdir \in BOOLEAN, use_raw \in BOOLEAN,
        format \in Formats :
         /\ call' = [fn |-> "save_all_images_in_frame", format |-> format,
                     cameras |-> Len(cams), create_subdir |-> create_subdir,
                     use_raw |-> use_raw]
         /\ todo' = cams
         /\ ipc' = IF cams = <<>> THEN "returned" ELSE "saving"
  /\ dirs' = dirs \cup {OutputPath}
  /\ pc' = "off"
  /\ UNCHANGED <<cls, rec, out, epos, encLog, input, data, dpos, instance, decLog,
                 raised, outcome, returned, saved, ierr>>

\* save_all_images_in_frame: one pass of the loop body, for the next camera.
SaveAllStep ==
  /\ ipc = "saving"
  /\ LET camera == Head(todo)
         image_to_save == IF call.use_raw THEN camera.raw ELSE camera.image
         camera_dir == Join(OutputPath, Lower(camera.name))
         r == IF call.create_subdir
              THEN SaveImage(image_to_save, camera_dir, <<>>, call.format)
              ELSE SaveImage(image_to_save, OutputPath, <<"_", Lower(camera.name)>>,
                             call.format)
     IN /\ dirs' = IF call.create_subdir THEN dirs \cup {camera_dir} ELSE dirs
        /\ saved' = saved \o r.writes
        /\ ierr' = r.err
        /\ todo' = IF r.err = "none" THEN Tail(todo) ELSE todo
        /\ ipc' = IF r.err # "none" THEN "raised"
                  ELSE IF Tail(todo) = <<>> THEN "returned" ELSE "saving"
  /\ UNCHANGED <<codecVars, call>>

Next ==
  \/ Construct
  \/ EncodeStep
  \/ CallFromBytes
  \/ DecodeStep
  \/ CallSaveImage
  \/ CallSaveAll
  \/ SaveAllStep

Spec == Init /\ [][Next]_vars

\* ----------------------------------------------------------------- claims

Ended == pc \in {"done", "failed"}

\* The offset in `input` from which the next leaf decode reads.
ReadOffset == Len(input) - Len(data)

AllPresent == \A p \in PathsOf[cls] : rec[p] # NONE

\* The codec a leaf goes through, whichever side names it.
Family(via) == IF via \in {"obj_to_bytes", "obj_from_bytes"} THEN "obj" ELSE "serialize"

\* The encodings of a record's leaves in the order __init__ declares them.
DeclaredParts(c, r) ==
  [i \in 1..Len(DeclOrderOf[c]) |->
     IF DeclOrderOf[c][i].kind = "Odometry" THEN ObjToBytes(r[DeclOrderOf[c][i].path])
     ELSE Serialize(r[DeclOrderOf[c][i].path])]

\* The number of leaves of group `grp` of an agent.
GroupSize(c, grp) == Cardinality({p \in PathsOf[c] : p[1] = grp})

\* C1: a sensor group with every slot present, encoded and decoded from the
\* whole encoding, is returned equal to the original slot by slot. (The claim
\* adds that the buffer has been read to its end, which is more than this.)
C1_CompositeRoundTrip ==
  (cls \in CompositeClasses /\ Ended /\ input = out /\ AllPresent)
    => (returned /\ instance = rec)

\* C2: an agent, encoded and decoded from the whole encoding, is returned
\* equal to the original in its vision group, its laser group and every extra
\* leaf; stated for agents whose first two cameras differ. (The claim adds
\* that the buffer has been read to its end, which is more than this.)
C2_AgentRoundTrip ==
  (/\ cls \in AgentClasses
   /\ Ended
   /\ input = out
   /\ AllPresent
   /\ rec[<<"cameras", FromBytesAttrs(AttrType(cls, "cameras"))[1]>>]
        # rec[<<"cameras", FromBytesAttrs(AttrType(cls, "cameras"))[2]>>])
    => (returned /\ instance = rec)

\* C3: to_bytes' output is the encodings of the leaves joined in declaration
\* order with nothing between them; its length is the sum of their lengths;
\* in an agent the vision group's bytes come first and the laser group's next.
C3_EncodeIsOrderedConcat ==
  pc \in {"encoded", "decoding", "done", "failed"} =>
    LET parts == DeclaredParts(cls, rec) IN
      /\ out = Flat(parts)
      /\ Len(out) = SumLen(parts)
      /\ cls \in AgentClasses =>
           LET nv == GroupSize(cls, "cameras")
               nl == GroupSize(cls, "lidars")
               vision == Flat(SubSeq(parts, 1, nv))
               laser == Flat(SubSeq(parts, nv + 1, nv + nl))
           IN /\ SubSeq(out, 1, Len(vision)) = vision
              /\ SubSeq(out, Len(vision) + 1, Len(vision) + Len(laser)) = laser

\* An agent with pairwise different leaves has been encoded.
C3_Witness ==
  /\ pc = "encoded"
  /\ cls = "Vehicle"
  /\ rec[<<"cameras", "BACK_LEFT">>] # rec[<<"cameras", "FRONT_LEFT">>]
  /\ Len(encLog) = Len(DeclOrderOf[cls])

\* C4: the fields from_bytes fills are, in order, the fields to_bytes emitted,
\* each through the same codec and as the class it was encoded from; a decode
\* that returns has filled all of them, and the statements from_bytes has yet
\* to run name the remaining fields in the encoder's order.
C4_SameFieldOrder ==
  pc \in {"decoding", "done", "failed"} =>
    /\ Len(decLog) <= Len(encLog)
    /\ \A i \in DOMAIN decLog :
         /\ decLog[i].path = encLog[i].path
         /\ Family(decLog[i].via) = Family(encLog[i].via)
         /\ encLog[i].kind \in {decLog[i].kind, "None"}
    /\ (pc = "done" => Len(decLog) = Len(encLog))
    /\ Len(DecPlanOf[cls]) = Len(encLog)
    /\ \A i \in DOMAIN encLog :
         /\ DecPlanOf[cls][i].path = encLog[i].path
         /\ Family(DecPlanOf[cls][i].via) = Family(encLog[i].via)
         /\ encLog[i].kind \in {DecPlanOf[cls][i].kind, "None"}

\* A group of seven slots has been decoded to the end.
C4_Witness ==
  /\ pc = "done"
  /\ cls = "VisionSensorsVeh"
  /\ Len(decLog) = Len(CompositeInit(cls))

\* C5: a record whose optional REAR slot is None, encoded and decoded from the
\* whole encoding, comes back with REAR None and every other slot equal.
C5_AbsentRearRoundTrip ==
  (/\ cls \in {"VisionSensorsVeh", "LaserSensorsVeh"}
   /\ Ended
   /\ input = out
   /\ rec[<<"self", "REAR">>] = NONE)
    => (returned /\ instance[<<"self", "REAR">>] = NONE /\ instance = rec)

\* C6: decoding a proper prefix of a record's encoding ends in
\* TruncatedStreamError and returns no record.
C6_PrefixIsTruncated ==
  (Ended /\ Len(input) < Len(out))
    => (outcome = "TruncatedStreamError" /\ ~returned)

\* C7: once a leaf decode has failed, the from_bytes call has ended with that
\* very error, no slot after the failing one has been decoded and nothing has
\* been returned.
C7_LeafErrorAborts ==
  raised # "none" =>
    /\ pc = "failed"
    /\ outcome = raised
    /\ ~returned
    /\ Len(decLog) = dpos - 1

\* A leaf decode failed inside an agent decode with slots still to come.
C7_Witness ==
  /\ raised # "none"
  /\ cls \in AgentClasses
  /\ dpos < Len(DecPlanOf[cls])
  /\ dpos > 1

Supported(format) == Upper(format) = PNG \/ Upper(format) = JPEG

\* C8: save_image with a format other than PNG or JPEG (in any case) raises
\* ValueError and writes nothing; with PNG or JPEG it writes one file, with
\* the extension of the format. save_all_images_in_frame with such a format
\* and a camera to save raises the same error and writes nothing.
C8_UnsupportedFormat ==
  /\ call.fn = "save_image" =>
       IF Supported(call.format)
       THEN /\ ipc = "returned"
            /\ ierr = "none"
            /\ Len(saved) = 1
            /\ saved[1].as = Upper(call.format)
            /\ saved[1].file.ext = (IF saved[1].as = JPEG THEN "jpg" ELSE "png")
       ELSE /\ ipc = "raised"
            /\ ierr = "ValueError"
            /\ saved = <<>>
  /\ (call.fn = "save_all_images_in_frame" /\ ~Supported(call.format) /\ call.cameras > 0) =>
       /\ ipc \in {"saving", "raised"}
       /\ saved = <<>>
       /\ (ipc = "raised" => ierr = "ValueError")
       /\ (ipc = "saving" => ierr = "none" /\ Len(todo) = call.cameras)

\* C9: in a group's decode of the whole encoding, each slot is decoded from
\* the offset at which its encoding starts and consumes the bytes its encode
\* produced, so no two slots are decoded from the same offset.
C9_SlotOffsets ==
  (cls \in CompositeClasses /\ input = out /\ pc \in {"decoding", "done", "failed"}) =>
    /\ (pc = "decoding" => ReadOffset = encLog[dpos].start)
    /\ \A i \in DOMAIN decLog :
         /\ decLog[i].start = encLog[i].start
         /\ decLog[i].used = encLog[i].used
    /\ \A i, j \in DOMAIN decLog : i # j => decLog[i].start # decLog[j].start

\* C10: in an agent's decode of the whole encoding, the laser group is decoded
\* from where the vision group's bytes end, the first extra leaf from where
\* the laser group's bytes end, and each further leaf from where the one
\* before it ended.
C10_AgentOffsets ==
  (/\ cls \in AgentClasses
   /\ input = out
   /\ pc = "decoding"
   /\ dpos > GroupSize(cls, "cameras"))
    => ReadOffset = encLog[dpos].start

====
